---- MODULE Spec2Model ----
(***************************************************************************)
(* Model of the lighthouse MCP server (src/src/index.ts): the              *)
(* get-lighthouse-report tool handler, the PageSpeed request helper        *)
(* makePageSpeedRequest with its AbortController deadline, and the two     *)
(* formatters formatPerformanceMetrics and formatOpportunities.            *)
(*                                                                         *)
(* JavaScript values are tagged records: undefined, null, strings, numbers *)
(* and objects.  A category score is a number held in thousandths (873 is  *)
(* 0.873).  Text is held as TLA+ strings and built with \o, as the         *)
(* template literals and Array.join of the source build it.                *)
(***************************************************************************)
EXTENDS Integers, Sequences, FiniteSets, TLC

VARIABLES pc, args, timer, aborted, outcome, reply, result

vars == <<pc, args, timer, aborted, outcome, reply, result>>

----------------------------------------------------------------------------
(* Bounds of the model *)

\* Number of tool invocations the host may have in flight at once.
NumInv == 2

\* Largest number of entries in an audits mapping served by the remote.
MaxAudits == 2

Inv == 1..NumInv

----------------------------------------------------------------------------
(* JavaScript values *)

Undefined == [t |-> "undefined"]

Null == [t |-> "null"]

Str(s) == [t |-> "string", v |-> s]

Num(k) == [t |-> "number", v |-> k]

Obj(f) == [t |-> "object", v |-> f]

\* An object whose own-key order matters (Object.values iterates keys in
\* insertion order for non-index string keys).
OrderedObj(keys, f) == [t |-> "object", v |-> f, keys |-> keys]

\* ToBoolean: what `!x`, `x || y` and `x ? a : b` test.
Truthy(x) ==
  CASE x.t = "undefined" -> FALSE
    [] x.t = "null"      -> FALSE
    [] x.t = "string"    -> x.v # ""
    [] x.t = "number"    -> x.v # 0
    [] OTHER             -> TRUE

\* x?.f, and x.f / x[f] on an object x: a key that is missing reads undefined.
Prop(x, f) ==
  IF x.t = "object" /\ f \in DOMAIN x.v THEN x.v[f] ELSE Undefined

\* Object.values(o) of an ordered object.
ObjectValues(o) == [i \in 1..Len(o.keys) |-> o.v[o.keys[i]]]

Digit(d) == SubSeq("0123456789", d + 1, d + 1)

RECURSIVE NatToString(_)
NatToString(n) == IF n < 10 THEN Digit(n) ELSE NatToString(n \div 10) \o Digit(n % 10)

\* String(x) as a template literal `${x}` renders it (numbers here are the
\* non-negative integers Math.round returns).
TemplateString(x) ==
  CASE x.t = "undefined" -> "undefined"
    [] x.t = "null"      -> "null"
    [] x.t = "string"    -> x.v
    [] x.t = "number"    -> NatToString(x.v)
    [] OTHER             -> "[object Object]"

\* Array.prototype.join
RECURSIVE Join(_, _)
Join(lines, sep) ==
  IF Len(lines) = 0 THEN ""
  ELSE IF Len(lines) = 1 THEN lines[1]
  ELSE lines[1] \o sep \o Join(Tail(lines), sep)

----------------------------------------------------------------------------
(* The formatters *)

\* Mutant of metrics: speed-index moved to the front of the list.
metrics_Reordered ==
  << "speed-index",
     "first-contentful-paint",
     "largest-contentful-paint",
     "total-blocking-time",
     "cumulative-layout-shift",
     "interactive" >>

\* The fixed, ordered whitelist of metric audit identifiers.
metrics ==
  << "first-contentful-paint",
     "largest-contentful-paint",
     "total-blocking-time",
     "cumulative-layout-shift",
     "speed-index",
     "interactive" >>

\* One metrics line: `${audit.title || metric}: ${audit.displayValue || "N/A"}`
MetricLine(audits, metric) ==
  LET audit == Prop(audits, metric)
      title == Prop(audit, "title")
      displayValue == Prop(audit, "displayValue")
  IN  (IF Truthy(title) THEN TemplateString(title) ELSE metric)
        \o ": "
        \o (IF Truthy(displayValue) THEN TemplateString(displayValue) ELSE "N/A")

formatPerformanceMetrics(data) ==
  LET audits == Prop(Prop(data, "lighthouseResult"), "audits")
  IN  IF ~Truthy(audits)
      THEN "No performance metrics available"
      ELSE LET present(metric) == Truthy(Prop(audits, metric))
               kept == SelectSeq(metrics, present)
           IN  Join([n \in 1..Len(kept) |-> MetricLine(audits, kept[n])], "\n")

\* Mutant of IsOpportunity: `audit.score <= 1` in place of `audit.score < 1`.
IsOpportunity_ScoreUpTo1(audit) ==
  LET type == Prop(Prop(audit, "details"), "type")
      score == Prop(audit, "score")
  IN  /\ type = Str("opportunity")
      /\ score # Null
      /\ score # Undefined
      /\ score.t = "number" /\ score.v <= 1000

\* The filter of formatOpportunities.
IsOpportunity(audit) ==
  LET type == Prop(Prop(audit, "details"), "type")
      score == Prop(audit, "score")
  IN  /\ type = Str("opportunity")
      /\ score # Null
      /\ score # Undefined
      /\ score.t = "number" /\ score.v < 1000

\* One opportunity line: `${opp.title}${savings}`
OpportunityLine(opp) ==
  LET displayValue == Prop(opp, "displayValue")
      savings == IF Truthy(displayValue)
                 THEN " (" \o TemplateString(displayValue) \o ")"
                 ELSE ""
  IN  TemplateString(Prop(opp, "title")) \o savings

formatOpportunities(data) ==
  LET audits == Prop(Prop(data, "lighthouseResult"), "audits")
  IN  IF ~Truthy(audits)
      THEN "No opportunities available"
      ELSE LET opportunities == SelectSeq(ObjectValues(audits), IsOpportunity)
           IN  IF Len(opportunities) = 0
               THEN "No improvement opportunities found"
               ELSE Join([n \in 1..Len(opportunities) |->
                            OpportunityLine(opportunities[n])], "\n")

----------------------------------------------------------------------------
(* The tool handler, after the request helper has returned *)

\* Thousandths k for which the binary64 product (k/1000)*100 lies just below
\* the half-way point although k/10 is exactly half-way: 0.285 * 100 is
\* 28.499999999999996 in IEEE-754 double arithmetic, and likewise for 0.145,
\* 0.565 and 0.575.  For every other k in 0..1000 rounding the double product
\* and rounding k/10 half-up agree.
FloatTiesBelow == {145, 285, 565, 575}

\* Math.round(score * 100) for a score that is not undefined; null * 100 is 0.
MathRoundTimes100(score) ==
  IF score.t = "number"
  THEN IF score.v \in FloatTiesBelow THEN score.v \div 10 ELSE (score.v + 5) \div 10
  ELSE 0

\* const score = data.lighthouseResult?.categories?.[category]?.score;
\* const formattedScore = score !== undefined ? Math.round(score * 100) : "N/A";
formattedScore(data, category) ==
  LET score == Prop(Prop(Prop(Prop(data, "lighthouseResult"), "categories"),
                         category), "score")
  IN  IF score # Undefined
      THEN NatToString(MathRoundTimes100(score))
      ELSE "N/A"

FailedText(url) == "Failed to retrieve Lighthouse data for " \o url

\* Mutant of ErrorText: the `|| "Unknown error"` default is missing.
ErrorText_NoDefault(data) ==
  "Error: " \o TemplateString(Prop(Prop(data, "error"), "message"))

ErrorText(data) ==
  LET message == Prop(Prop(data, "error"), "message")
  IN  "Error: " \o (IF Truthy(message) THEN TemplateString(message) ELSE "Unknown error")

ReportLines(url, category, strategy, data) ==
  << "Lighthouse " \o category \o " report for: " \o url,
     "Strategy: " \o strategy,
     "Score: " \o formattedScore(data, category) \o "/100",
     "",
     "--- Key Metrics ---",
     formatPerformanceMetrics(data),
     "",
     "--- Opportunities for Improvement ---",
     formatOpportunities(data) >>

\* Nothing returned yet.
NoResult == [kind |-> "none", text |-> "", lines |-> << >>]

\* What the handler returns for the value makePageSpeedRequest resolved to.
\* `lines` holds the elements of the array that is joined into the report
\* (empty for the two one-line replies).
HandlerResult(url, category, strategy, data) ==
  IF ~Truthy(data)
  THEN [kind |-> "failed", text |-> FailedText(url), lines |-> << >>]
  ELSE IF Truthy(Prop(data, "error"))
  THEN [kind |-> "error", text |-> ErrorText(data), lines |-> << >>]
  ELSE LET lines == ReportLines(url, category, strategy, data)
       IN  [kind |-> "report", text |-> Join(lines, "\n"), lines |-> lines]

----------------------------------------------------------------------------
(* The remote's replies: values of the PageSpeedResponse shape *)

Body(error, lighthouseResult) ==
  Obj([error |-> error, lighthouseResult |-> lighthouseResult])

LighthouseResult(categories, audits) ==
  Obj([categories |-> categories, audits |-> audits])

Category(score) == Obj([score |-> score])

Audit(title, displayValue, score, details) ==
  Obj([title |-> title, displayValue |-> displayValue, score |-> score,
       details |-> details])

Details(type) == Obj([type |-> type])

\* Audit identifiers the remote uses here: two of the whitelist (the fifth and
\* the first, so that key order and whitelist order can disagree) and one
\* outside it.
AuditIds == {"speed-index", "first-contentful-paint", "unused-javascript"}

Titles(name) == {Undefined, Null, Str(""), Str(name)}

DisplayValues(value) == {Undefined, Str(""), Str(value)}

AuditScores == {Undefined, Null, Num(0), Num(500), Num(1000)}

AuditDetails == {Undefined, Null, Details(Undefined), Details(Str("table")),
                 Details(Str("opportunity"))}

\* Audit records: on a plain audit and on a qualifying opportunity, every title
\* beside a display value and every display value beside a title; on a titled
\* opportunity, every score and every details.
AuditRecords ==
  {Audit(ti, Str("2.1 s"), Undefined, Undefined) : ti \in Titles("Speed Index")}
    \cup {Audit(Str("Speed Index"), dv, Num(1000), Details(Str("table"))) :
            dv \in DisplayValues("2.1 s")}
    \cup {Audit(Undefined, Undefined, Undefined, Undefined)}
    \cup {Audit(ti, Str("Potential savings of 300 ms"), Num(500),
                Details(Str("opportunity"))) : ti \in Titles("Reduce JavaScript")}
    \cup {Audit(Str("Reduce JavaScript"), dv, Num(500), Details(Str("opportunity"))) :
            dv \in DisplayValues("Potential savings of 300 ms")}
    \cup {Audit(Str("Reduce JavaScript"), Str("Potential savings of 300 ms"), sc,
                Details(Str("opportunity"))) : sc \in AuditScores}
    \cup {Audit(Str("Reduce JavaScript"), Str("Potential savings of 300 ms"),
                Num(500), de) : de \in AuditDetails}

IsInjective(s) == \A i, j \in DOMAIN s : s[i] = s[j] => i = j

Range(s) == {s[i] : i \in DOMAIN s}

\* Key orders of an audits mapping of at most MaxAudits entries.
KeyOrders ==
  UNION {{ks \in [1..n -> AuditIds] : IsInjective(ks)} : n \in 0..MaxAudits}

\* The audits mappings over a key order.
AuditMappings(ks) == {OrderedObj(ks, f) : f \in [Range(ks) -> AuditRecords]}

\* Category scores in thousandths: 0, a tie that rounds up (0.005), a tie whose
\* double product falls below the half (0.285), 0.5, 0.873 and 1.
CategoryScores == {Undefined, Null, Num(0), Num(5), Num(285), Num(500), Num(873),
                   Num(1000)}

\* Categories mappings over two of the category names.
CategoryMappings ==
  UNION {[ks -> {Category(sc) : sc \in CategoryScores}] :
           ks \in SUBSET {"performance", "seo"}}

ErrorValues ==
  {Null, Obj([message |-> Undefined, code |-> Num(400)]),
   Obj([message |-> Str(""), code |-> Num(400)]),
   Obj([message |-> Str("Quota exceeded"), code |-> Num(429)])}

\* A complete result, used where the other parts of the reply vary.
FullResult ==
  LighthouseResult(
    Obj([performance |-> Category(Num(873))]),
    OrderedObj(<<"unused-javascript", "speed-index">>,
      [k \in {"unused-javascript", "speed-index"} |->
         IF k = "speed-index"
         THEN Audit(Str("Speed Index"), Str("2.1 s"), Num(1000), Undefined)
         ELSE Audit(Str("Reduce JavaScript"), Str("Potential savings of 300 ms"),
                    Num(500), Details(Str("opportunity")))]))

ErrorBodies ==
  {Body(e, r) : e \in ErrorValues, r \in {Undefined, FullResult}}

ScoreBodies ==
  {Body(Undefined, r) :
     r \in {Undefined, Null, LighthouseResult(Undefined, Undefined)}
             \cup {LighthouseResult(Obj(c), Undefined) : c \in CategoryMappings}}

\* A reply whose audits vary beside a fixed category score.
AuditBody(audits) ==
  Body(Undefined, LighthouseResult(Obj([performance |-> Category(Num(873))]), audits))

\* The replies the remote serves while several invocations are in flight: JSON
\* null, a remote-reported error, a complete report and an empty object.
DispatchBodies ==
  {Null,
   Body(Obj([message |-> Str("Quota exceeded"), code |-> Num(429)]), Undefined),
   Body(Undefined, FullResult),
   Body(Undefined, Undefined)}

Request(url, category, strategy) ==
  [url |-> url, category |-> category, strategy |-> strategy]

NoRequest == Request("", "", "")

\* Validated tool arguments of the concurrent invocations.
DispatchRequests ==
  {Request("https://a.example/", "performance", "mobile"),
   Request("https://b.example/shop", "performance", "mobile"),
   Request("https://b.example/shop", "seo", "desktop")}

\* Validated tool arguments the formatter is exercised on.
FormatterRequests ==
  {Request("https://a.example/", "performance", "mobile"),
   Request("https://b.example/shop", "seo", "desktop"),
   Request("https://a.example/", "pwa", "mobile")}

----------------------------------------------------------------------------
(* The request helper and the handler as a state machine, one per invocation *)

\* Mutant of CatchResult: the catch block returns an empty object.
CatchResult_EmptyObject == Obj([error |-> Undefined, lighthouseResult |-> Undefined])

\* The catch block's `return null`.
CatchResult == Null

\* `if (!response.ok) throw ...`
ThrowsOnStatus(ok) == ~ok

\* Mutant of AbortTargets: one module-level controller shared by all calls.
AbortTargets_Shared(i) == Inv

\* The invocations whose fetch the controller of invocation i aborts: the
\* controller is a local of the call.
AbortTargets(i) == {i}

Done(i, how, data) ==
  /\ pc' = [pc EXCEPT ![i] = "done"]
  /\ outcome' = [outcome EXCEPT ![i] = how]
  /\ reply' = [reply EXCEPT ![i] = data]
  /\ result' = [result EXCEPT ![i] =
       HandlerResult(args[i].url, args[i].category, args[i].strategy, data)]

\* The host calls the tool: the handler calls makePageSpeedRequest, which
\* creates its controller, arms the deadline timer, starts fetch and suspends.
Invoke(i, request) ==
  /\ pc[i] = "idle"
  /\ pc' = [pc EXCEPT ![i] = "fetch"]
  /\ args' = [args EXCEPT ![i] = request]
  /\ timer' = [timer EXCEPT ![i] = "armed"]
  /\ UNCHANGED <<aborted, outcome, reply, result>>

\* The deadline timer's callback runs controller.abort(): a fetch that is still
\* pending on that signal rejects with AbortError, the catch block returns
\* null and the handler returns.
TimerFires(i) ==
  /\ timer[i] = "armed"
  /\ timer' = [timer EXCEPT ![i] = "fired"]
  /\ LET hit == {j \in AbortTargets(i) : pc[j] = "fetch"}
     IN  /\ aborted' = [j \in Inv |-> aborted[j] \/ j \in AbortTargets(i)]
         /\ pc' = [j \in Inv |-> IF j \in hit THEN "done" ELSE pc[j]]
         /\ outcome' = [j \in Inv |-> IF j \in hit THEN "timeout" ELSE outcome[j]]
         /\ reply' = [j \in Inv |-> IF j \in hit THEN CatchResult ELSE reply[j]]
         /\ result' = [j \in Inv |->
              IF j \in hit
              THEN HandlerResult(args[j].url, args[j].category, args[j].strategy,
                                 CatchResult)
              ELSE result[j]]
  /\ UNCHANGED args

\* fetch rejects (DNS, connection refused, reset): control jumps to the catch
\* block, past clearTimeout, so the timer stays armed.
FetchRejects(i) ==
  /\ pc[i] = "fetch"
  /\ Done(i, "network", CatchResult)
  /\ UNCHANGED <<args, timer, aborted>>

\* fetch resolves with the response head: the timer is cleared; a non-2xx
\* status throws into the catch block, otherwise response.json() is awaited.
HeadersArrive(i, ok) ==
  /\ pc[i] = "fetch"
  /\ timer' = [timer EXCEPT ![i] = "cleared"]
  /\ IF ThrowsOnStatus(ok)
     THEN Done(i, "http", CatchResult)
     ELSE /\ pc' = [pc EXCEPT ![i] = "json"]
          /\ UNCHANGED <<outcome, reply, result>>
  /\ UNCHANGED <<args, aborted>>

\* response.json() resolves with the decoded body and the handler formats it.
JsonResolves(i, data) ==
  /\ pc[i] = "json"
  /\ Done(i, "decoded", data)
  /\ UNCHANGED <<args, timer, aborted>>

\* response.json() rejects: the body is not JSON ("malformed") or the
\* connection broke while the body was read ("network").
JsonRejects(i, how) ==
  /\ pc[i] = "json"
  /\ Done(i, how, CatchResult)
  /\ UNCHANGED <<args, timer, aborted>>

Init ==
  /\ pc = [i \in Inv |-> "idle"]
  /\ args = [i \in Inv |-> NoRequest]
  /\ timer = [i \in Inv |-> "unset"]
  /\ aborted = [i \in Inv |-> FALSE]
  /\ outcome = [i \in Inv |-> "none"]
  /\ reply = [i \in Inv |-> Undefined]
  /\ result = [i \in Inv |-> NoResult]

Next ==
  \E i \in Inv :
    \/ \E request \in DispatchRequests : Invoke(i, request)
    \/ TimerFires(i)
    \/ FetchRejects(i)
    \/ \E ok \in BOOLEAN : HeadersArrive(i, ok)
    \/ \E data \in DispatchBodies : JsonResolves(i, data)
    \/ \E how \in {"malformed", "network"} : JsonRejects(i, how)

Spec == Init /\ [][Next]_vars

\* The event loop runs a timer callback that is due; the remote owes nothing.
FairSpec == Spec /\ \A i \in Inv : WF_vars(TimerFires(i))

\* The formatter on its own: invocation 1 has received a 2xx response head for
\* some validated arguments and awaits response.json().
FormatterInit ==
  /\ \E request \in FormatterRequests :
       args = [i \in Inv |-> IF i = 1 THEN request ELSE NoRequest]
  /\ pc = [i \in Inv |-> IF i = 1 THEN "json" ELSE "idle"]
  /\ timer = [i \in Inv |-> IF i = 1 THEN "cleared" ELSE "unset"]
  /\ aborted = [i \in Inv |-> FALSE]
  /\ outcome = [i \in Inv |-> "none"]
  /\ reply = [i \in Inv |-> Undefined]
  /\ result = [i \in Inv |-> NoResult]

\* response.json() resolves with one of the replies the formatter is exercised
\* on: an error reply, a reply whose categories vary, or one whose audits vary.
FormatterNext ==
  /\ pc[1] = "json"
  /\ \/ \E data \in ErrorBodies \cup ScoreBodies : JsonResolves(1, data)
     \/ \E audits \in {Undefined, Null} : JsonResolves(1, AuditBody(audits))
     \/ \E ks \in KeyOrders : \E audits \in AuditMappings(ks) :
          JsonResolves(1, AuditBody(audits))

FormatterSpec == FormatterInit /\ [][FormatterNext]_vars

----------------------------------------------------------------------------
(* Claims about the request helper (Spec, FairSpec) *)

\* The ways the outbound call fails at transport level.
TransportFailures == {"timeout", "network", "http", "malformed"}

\* C1: whenever an invocation's outbound call failed at transport level
\* (deadline expiry, network error, non-2xx status, undecodable body), the
\* text it returned is exactly "Failed to retrieve Lighthouse data for "
\* followed by its own url, and nothing else.
C1_TransportFailureText ==
  \A i \in Inv :
    pc[i] = "done" /\ outcome[i] \in TransportFailures
      => /\ result[i].text = "Failed to retrieve Lighthouse data for " \o args[i].url
         /\ result[i].lines = << >>

\* C1 witness: one invocation has returned after a deadline expiry and another
\* after an undecodable body.
C1_Witness ==
  \E i, j \in Inv :
    /\ pc[i] = "done" /\ outcome[i] = "timeout"
    /\ pc[j] = "done" /\ outcome[j] = "malformed"
    /\ result[j].text = "Failed to retrieve Lighthouse data for https://b.example/shop"

\* The state of one invocation.
Local(i) == <<pc[i], args[i], timer[i], aborted[i], outcome[i], reply[i], result[i]>>

\* The text owed to arguments a, a call that ended as o, and a decoded reply r.
OwnText(a, o, r) ==
  IF o = "decoded"
  THEN HandlerResult(a.url, a.category, a.strategy, r).text
  ELSE "Failed to retrieve Lighthouse data for " \o a.url

\* C10: every step changes the state of at most one invocation; an invocation
\* is aborted, or ends by deadline expiry, only after its own timer fired; and
\* a returned text is the one its own arguments and its own call's outcome
\* determine.
C10_Independent ==
  [][ /\ \A i, j \in Inv :
           i # j => Local(i)' = Local(i) \/ Local(j)' = Local(j)
      /\ \A i \in Inv :
           /\ outcome'[i] = "timeout" \/ aborted'[i] => timer'[i] = "fired"
           /\ pc'[i] = "done"
                => result'[i].text = OwnText(args'[i], outcome'[i], reply'[i])
    ]_vars

\* C10 witness: one invocation has ended by deadline expiry while another is
\* still waiting for its response with its own timer armed.
C10_Witness ==
  \E i, j \in Inv :
    /\ pc[i] = "done" /\ outcome[i] = "timeout"
    /\ pc[j] = "fetch" /\ timer[j] = "armed" /\ ~aborted[j]

\* C4: every invocation that was started eventually returns a text, provided
\* only that an armed deadline timer eventually fires (FairSpec).
C4_EventuallyReturns ==
  \A i \in Inv : (pc[i] # "idle") ~> (pc[i] = "done")

----------------------------------------------------------------------------
(* Claims about the formatter (FormatterSpec): invocation 1 *)

\* Position of the first line break of s at or after position i, or 0.
RECURSIVE BreakFrom(_, _)
BreakFrom(s, i) ==
  IF i > Len(s) THEN 0
  ELSE IF SubSeq(s, i, i) = "\n" THEN i
  ELSE BreakFrom(s, i + 1)

\* The lines of a text.
RECURSIVE SplitLines(_)
SplitLines(s) ==
  LET b == BreakFrom(s, 1)
  IN  IF b = 0 THEN <<s>>
      ELSE <<SubSeq(s, 1, b - 1)>> \o SplitLines(SubSeq(s, b + 1, Len(s)))

StartsWith(s, prefix) ==
  Len(s) >= Len(prefix) /\ SubSeq(s, 1, Len(prefix)) = prefix

\* Invocation 1 returned a full report.
FullReport == pc[1] = "done" /\ result[1].kind = "report"

ScoreLine == result[1].lines[3]

MetricsBlock == result[1].lines[6]

OpportunitiesBlock == result[1].lines[9]

\* The fields of the decoded reply, as the response shape names them.
ReplyError == Prop(reply[1], "error")

ReplyAudits == Prop(Prop(reply[1], "lighthouseResult"), "audits")

ReplyScore ==
  Prop(Prop(Prop(Prop(reply[1], "lighthouseResult"), "categories"),
            args[1].category), "score")

IsString(x) == x.t = "string"

Nullish(x) == x.t \in {"undefined", "null"}

IsMapping(x) == x.t = "object"

\* C2 (as stated): a decoded reply that has an error object yields exactly
\* "Error: " followed by error.message when the message is present, and
\* "Error: Unknown error" when it is absent, and no report section.
C2_ErrorReply ==
  pc[1] = "done" /\ outcome[1] = "decoded" /\ IsMapping(ReplyError)
    => LET message == Prop(ReplyError, "message")
       IN  /\ result[1].text = IF IsString(message)
                               THEN "Error: " \o message.v
                               ELSE "Error: Unknown error"
           /\ result[1].lines = << >>

\* C2 (amended): a decoded reply whose error field is an object yields exactly
\* "Error: " followed by error.message when the message is a non-empty string,
\* and "Error: Unknown error" when the message is absent or empty; no report
\* section is produced, whatever else the reply holds.
C2_ErrorReplyNonEmpty ==
  pc[1] = "done" /\ outcome[1] = "decoded" /\ IsMapping(ReplyError)
    => LET message == Prop(ReplyError, "message")
       IN  /\ result[1].text = IF IsString(message) /\ message.v # ""
                               THEN "Error: " \o message.v
                               ELSE "Error: Unknown error"
           /\ result[1].kind = "error"
           /\ result[1].lines = << >>

\* C2 witness: an error reply that also carries a complete result returned the
\* error line alone.
C2_Witness ==
  /\ pc[1] = "done"
  /\ reply[1] = Body(Obj([message |-> Str("Quota exceeded"), code |-> Num(429)]),
                     FullResult)
  /\ result[1].text = "Error: Quota exceeded"

\* C3: in a report for a reply whose audits mapping is absent, or present but
\* empty, the metrics block is "No performance metrics available" and the
\* opportunities block is "No opportunities available".
C3_AbsentOrEmptyAudits ==
  FullReport /\ (Nullish(ReplyAudits) \/ (IsMapping(ReplyAudits) /\ ReplyAudits.keys = << >>))
    => /\ MetricsBlock = "No performance metrics available"
       /\ OpportunitiesBlock = "No opportunities available"

\* The audits of the reply that formatOpportunities must list: details.type is
\* "opportunity" and the score is a number below 1 (1000 thousandths).
Qualifies(audit) ==
  LET details == Prop(audit, "details")
      score == Prop(audit, "score")
  IN  /\ IsMapping(details)
      /\ Prop(details, "type") = Str("opportunity")
      /\ score.t = "number"
      /\ score.v < 1000

Qualifying == SelectSeq(ObjectValues(ReplyAudits), Qualifies)

\* C5: a report never shows text derived from an absent or null value: a
\* category score that is absent or null gives "Score: N/A/100", and the line
\* of an opportunity without a title does not start with "undefined" or "null".
C5_NoAbsentValueLeak ==
  FullReport
    => /\ Nullish(ReplyScore) => ScoreLine = "Score: N/A/100"
       /\ IsMapping(ReplyAudits) /\ Len(Qualifying) > 0
            => LET shown == SplitLines(OpportunitiesBlock)
               IN  \A n \in 1..Len(Qualifying) :
                     Nullish(Prop(Qualifying[n], "title")) /\ n <= Len(shown)
                       => /\ ~StartsWith(shown[n], "undefined")
                          /\ ~StartsWith(shown[n], "null")

\* C6: the score line is "Score: N/100" with N the score times 100 rounded
\* half away from zero when the requested category has a numeric score, and
\* "Score: N/A/100" when the result, the categories, the category or its score
\* is absent.
C6_ScoreLine ==
  FullReport
    => /\ ReplyScore.t = "number"
            => ScoreLine = "Score: " \o NatToString((ReplyScore.v + 5) \div 10) \o "/100"
       /\ ReplyScore = Undefined => ScoreLine = "Score: N/A/100"

\* The whitelist of C7, in its order.
Whitelist ==
  <<"first-contentful-paint", "largest-contentful-paint", "total-blocking-time",
    "cumulative-layout-shift", "speed-index", "interactive">>

IsKey(id) == id \in DOMAIN ReplyAudits.v

IsNonEmptyString(x) == x.t = "string" /\ x.v # ""

\* Whether a title or display value x is used: any string when emptyCounts,
\* only a non-empty one otherwise.
Shown(x, emptyCounts) == IF emptyCounts THEN IsString(x) ELSE IsNonEmptyString(x)

\* The metrics block with one line per whitelisted key of the mapping, in
\* whitelist order.
ExpectedMetrics(emptyCounts) ==
  LET line(id) ==
        LET title == Prop(ReplyAudits.v[id], "title")
            displayValue == Prop(ReplyAudits.v[id], "displayValue")
        IN  (IF Shown(title, emptyCounts) THEN title.v ELSE id) \o ": "
              \o (IF Shown(displayValue, emptyCounts) THEN displayValue.v ELSE "N/A")
      kept == SelectSeq(Whitelist, IsKey)
  IN  Join([n \in 1..Len(kept) |-> line(kept[n])], "\n")

\* C7 (as stated): for an audits mapping the metrics block has exactly one line
\* per whitelisted identifier that is a key of the mapping, in whitelist
\* order, each "<title, or the identifier when the title is absent>:
\* <displayValue, or N/A when absent>".
C7_MetricsLines ==
  FullReport /\ IsMapping(ReplyAudits)
    => MetricsBlock = ExpectedMetrics(TRUE)

\* C7 (amended): as C7, with the identifier used when the title is absent, null
\* or empty and N/A used when the display value is absent, null or empty.
C7_MetricsLinesNonEmpty ==
  FullReport /\ IsMapping(ReplyAudits)
    => MetricsBlock = ExpectedMetrics(FALSE)

\* C7 witness: a mapping that lists speed-index before first-contentful-paint
\* is rendered in whitelist order, the untitled audit under its identifier.
C7_Witness ==
  /\ FullReport
  /\ IsMapping(ReplyAudits)
  /\ ReplyAudits.keys = <<"speed-index", "first-contentful-paint">>
  /\ MetricsBlock = "first-contentful-paint: N/A\nSpeed Index: 2.1 s"

\* The opportunities block of C8 holds for the reply: one line per qualifying
\* audit in iteration order, a titled audit's line being its title followed by
\* " (displayValue)" when the display value is shown; the fixed sentence when
\* none qualifies.
OpportunitiesAsListed(emptyCounts) ==
  IF Len(Qualifying) = 0
  THEN OpportunitiesBlock = "No improvement opportunities found"
  ELSE LET shown == SplitLines(OpportunitiesBlock)
       IN  /\ Len(shown) = Len(Qualifying)
           /\ \A n \in 1..Len(Qualifying) :
                LET title == Prop(Qualifying[n], "title")
                    displayValue == Prop(Qualifying[n], "displayValue")
                IN  IsString(title)
                      => shown[n] = title.v \o (IF Shown(displayValue, emptyCounts)
                                                THEN " (" \o displayValue.v \o ")"
                                                ELSE "")

\* C8 (as stated): for an audits mapping the opportunities block lists exactly
\* the audits whose details.type is "opportunity" and whose score is a number
\* below 1, in iteration order, each as its title followed by " (displayValue)"
\* only when a display value exists; "No improvement opportunities found" when
\* none qualifies.
C8_Opportunities ==
  FullReport /\ IsMapping(ReplyAudits) => OpportunitiesAsListed(TRUE)

\* C8 (amended): as C8, the suffix " (displayValue)" being added only when the
\* display value is a non-empty string.
C8_OpportunitiesNonEmpty ==
  FullReport /\ IsMapping(ReplyAudits) => OpportunitiesAsListed(FALSE)

\* C8 witness: of two opportunity audits the one scored 0.5 is listed and the
\* one scored 1 is not.
C8_Witness ==
  /\ FullReport
  /\ IsMapping(ReplyAudits)
  /\ Len(ReplyAudits.keys) = 2
  /\ \E k \in DOMAIN ReplyAudits.v :
       ReplyAudits.v[k] = Audit(Str("Reduce JavaScript"),
                                Str("Potential savings of 300 ms"), Num(1000),
                                Details(Str("opportunity")))
  /\ OpportunitiesBlock = "Reduce JavaScript (Potential savings of 300 ms)"

\* C9: in a full report neither the metrics block nor the opportunities block
\* is empty, and a non-empty audits mapping holding none of the whitelisted
\* identifiers gives the metrics block "No performance metrics available".
C9_NoBlankBlock ==
  FullReport
    => /\ MetricsBlock # ""
       /\ OpportunitiesBlock # ""
       /\ IsMapping(ReplyAudits) /\ ReplyAudits.keys # << >>
            /\ SelectSeq(Whitelist, IsKey) = << >>
            => MetricsBlock = "No performance metrics available"

====
